---- MODULE Spec2Model ----
(***************************************************************************)
(* Model of pytestqt/qt_compat.py: the _QtApi facade object, its           *)
(* set_qt_api method (resolution of the Qt binding, loading of its         *)
(* modules, binding of the uniform names) and its get_versions method.     *)
(*                                                                         *)
(* Python values are modelled as follows.                                  *)
(*   - a str is a TLA+ string; Python's None is the string None;           *)
(*   - an imported module is the pair <<root package, module name>>;       *)
(*   - a symbol read from a module is <<root package, module, attribute>>; *)
(*   - an object attribute that was never assigned is Unset (reading it    *)
(*     raises AttributeError in Python); the value None is NoneVal.        *)
(***************************************************************************)
EXTENDS Integers, Sequences, FiniteSets, TLC

VARIABLES
    PYTEST_QT_FORCE_PYQT, \* os.environ['PYTEST_QT_FORCE_PYQT'] (None: not set)
    PYTEST_QT_API,        \* os.environ['PYTEST_QT_API'] (None: not set)
    installed,            \* root packages that __import__ can find
    fault,                \* the external call that raises, if any: the import of a
                          \* submodule or of sip, or sip.setapi of a name (None: none)
    pytest_qt_api,        \* qt_api.pytest_qt_api (line 62)
    attrs,                \* every other attribute of the qt_api object (lines 88-129)
    trace,                \* external calls that succeeded during the last set_qt_api
    last,                 \* the last operation: its name, argument and exception
    versions,             \* the value returned by the last successful get_versions
    versions_of           \* pytest_qt_api of the facade that get_versions was called on

vars == <<PYTEST_QT_FORCE_PYQT, PYTEST_QT_API, installed, fault,
          pytest_qt_api, attrs, trace, last, versions, versions_of>>

env == <<PYTEST_QT_FORCE_PYQT, PYTEST_QT_API, installed, fault>>

----------------------------------------------------------------------------
(* Values *)

None == "<None>"
Unset == <<>>
NoneVal == <<"None">>
UnsetApi == "<unset>"

Roots == {"PySide", "PyQt4", "PyQt5"}
Submodules == {"QtCore", "QtGui", "QtTest", "QtWidgets"}

\* the tuple of line 56
KnownApis == {"pyside", "pyqt4", "pyqt4v2", "pyqt5"}

\* the dict of lines 68-73
root_modules ==
    [pyside |-> "PySide", pyqt4 |-> "PyQt4", pyqt4v2 |-> "PyQt4", pyqt5 |-> "PyQt5"]

\* the names passed to sip.setapi, in the order of lines 80-86
SipApis == <<"QDate", "QDateTime", "QString", "QTextStream", "QTime", "QUrl", "QVariant">>

\* the attributes set_qt_api assigns on self (other than pytest_qt_api)
UniformNames ==
    {"QtCore", "QtGui", "QtTest", "Qt", "QEvent",
     "qDebug", "qWarning", "qCritical", "qFatal",
     "QtDebugMsg", "QtWarningMsg", "QtCriticalMsg", "QtFatalMsg",
     "qInstallMsgHandler", "qInstallMessageHandler",
     "Signal", "Slot", "Property", "QApplication", "QWidget"}

(* Exceptions *)
NoExc == [exc |-> "none", msg |-> ""]
ConfigurationError ==
    [exc |-> "RuntimeError", msg |-> "Invalid value for $PYTEST_QT_API"]
NoBackendFoundError ==
    [exc |-> "RuntimeError",
     msg |-> "pytest-qt requires either PySide, PyQt4 or PyQt5 to be installed"]
KeyError == [exc |-> "KeyError", msg |-> ""]
ImportError == [exc |-> "ImportError", msg |-> ""]
ValueError == [exc |-> "ValueError", msg |-> ""]
AttributeError == [exc |-> "AttributeError", msg |-> ""]

----------------------------------------------------------------------------
(* Inputs *)

\* values of the qt_api argument; None and "" are falsy
Overrides == {None, "", "pyside", "pyqt4", "pyqt4v2", "pyqt5", "PyQt5", "bogus"}

\* values of $PYTEST_QT_FORCE_PYQT
ForceValues == {None, "true", "false"}

\* values of $PYTEST_QT_API
ConfiguredValues ==
    {None, "", "PySide", "pyqt4", "PYQT4V2", "pyqt5", "Bogus"}

\* the external calls of set_qt_api that can raise
Faults == {None, "sip"} \cup Submodules \cup {SipApis[i] : i \in 1..Len(SipApis)}

\* lower() left out: the value of $PYTEST_QT_API compared as it is
lower_identity(s) == s

\* str.lower() on the strings above
lower(s) ==
    CASE s = "PySide" -> "pyside"
      [] s = "PYQT4V2" -> "pyqt4v2"
      [] s = "Bogus" -> "bogus"
      [] OTHER -> s

----------------------------------------------------------------------------
(* set_qt_api: resolution, lines 31-60 *)

\* _try_import(name), lines 31-36
try_import(name) == name \in installed

\* _guess_qt_api() probing PyQt4 before PySide
guess_pyqt4_first ==
    IF try_import("PyQt4") THEN
        [api |-> "pyqt4", exc |-> NoExc, trace |-> <<<<"probe", "PyQt4">>>>]
    ELSE IF try_import("PySide") THEN
        [api |-> "pyside", exc |-> NoExc,
         trace |-> <<<<"probe", "PyQt4">>, <<"probe", "PySide">>>>]
    ELSE IF try_import("PyQt5") THEN
        [api |-> "pyqt5", exc |-> NoExc,
         trace |-> <<<<"probe", "PyQt4">>, <<"probe", "PySide">>, <<"probe", "PyQt5">>>>]
    ELSE
        [api |-> None, exc |-> NoBackendFoundError,
         trace |-> <<<<"probe", "PyQt4">>, <<"probe", "PySide">>, <<"probe", "PyQt5">>>>]

\* _guess_qt_api(), lines 38-47: the result, and the probes it ran
guess_qt_api ==
    IF try_import("PySide") THEN
        [api |-> "pyside", exc |-> NoExc, trace |-> <<<<"probe", "PySide">>>>]
    ELSE IF try_import("PyQt4") THEN
        [api |-> "pyqt4", exc |-> NoExc,
         trace |-> <<<<"probe", "PySide">>, <<"probe", "PyQt4">>>>]
    ELSE IF try_import("PyQt5") THEN
        [api |-> "pyqt5", exc |-> NoExc,
         trace |-> <<<<"probe", "PySide">>, <<"probe", "PyQt4">>, <<"probe", "PyQt5">>>>]
    ELSE
        [api |-> None, exc |-> NoBackendFoundError,
         trace |-> <<<<"probe", "PySide">>, <<"probe", "PyQt4">>, <<"probe", "PyQt5">>>>]

\* os.environ.get('PYTEST_QT_FORCE_PYQT', 'false') == 'true', line 50
force_pyqt ==
    (IF PYTEST_QT_FORCE_PYQT = None THEN "false" ELSE PYTEST_QT_FORCE_PYQT) = "true"

\* lines 53-60: the value taken from $PYTEST_QT_API, or guessed
from_environment ==
    IF PYTEST_QT_API # None THEN
        IF lower(PYTEST_QT_API) \notin KnownApis
        THEN [api |-> lower(PYTEST_QT_API), exc |-> ConfigurationError, trace |-> <<>>]
        ELSE [api |-> lower(PYTEST_QT_API), exc |-> NoExc, trace |-> <<>>]
    ELSE guess_qt_api

\* resolution with the force flag pinning pyside instead of pyqt4
resolve_force_pyside(qt_api) ==
    IF force_pyqt THEN [api |-> "pyside", exc |-> NoExc, trace |-> <<>>]
    ELSE IF qt_api \in {None, ""} THEN from_environment
    ELSE [api |-> qt_api, exc |-> NoExc, trace |-> <<>>]

\* resolution reading $PYTEST_QT_API before looking at the argument
resolve_env_first(qt_api) ==
    IF force_pyqt THEN [api |-> "pyqt4", exc |-> NoExc, trace |-> <<>>]
    ELSE IF PYTEST_QT_API # None \/ qt_api \in {None, ""} THEN from_environment
    ELSE [api |-> qt_api, exc |-> NoExc, trace |-> <<>>]

\* lines 49-60
resolve(qt_api) ==
    IF force_pyqt THEN [api |-> "pyqt4", exc |-> NoExc, trace |-> <<>>]
    ELSE IF qt_api \in {None, ""} THEN from_environment
    ELSE [api |-> qt_api, exc |-> NoExc, trace |-> <<>>]

----------------------------------------------------------------------------
(* set_qt_api: loading and binding, lines 64-129 *)

Import(target, mod) == [op |-> "import", target |-> target, mod |-> mod, attr |-> ""]
GetAttr(target, mod, attr) == [op |-> "getattr", target |-> target, mod |-> mod, attr |-> attr]
SetNone(target) == [op |-> "none", target |-> target, mod |-> "", attr |-> ""]
SetApi(name) == [op |-> "setapi", target |-> "", mod |-> "sip", attr |-> name]
ImportSip == [op |-> "import_sip", target |-> "", mod |-> "sip", attr |-> ""]

\* lines 76-86
sip_steps(qt_api) ==
    IF qt_api = "pyqt4v2"
    THEN <<ImportSip>> \o [i \in 1..Len(SipApis) |-> SetApi(SipApis[i])]
    ELSE <<>>

\* lines 88-106 without the reset of the two installers (lines 105-106)
common_steps_no_reset ==
    <<Import("QtCore", "QtCore"), Import("QtGui", "QtGui"), Import("QtTest", "QtTest"),
      GetAttr("Qt", "QtCore", "Qt"), GetAttr("QEvent", "QtCore", "QEvent"),
      GetAttr("qDebug", "QtCore", "qDebug"), GetAttr("qWarning", "QtCore", "qWarning"),
      GetAttr("qCritical", "QtCore", "qCritical"), GetAttr("qFatal", "QtCore", "qFatal"),
      GetAttr("QtDebugMsg", "QtCore", "QtDebugMsg"),
      GetAttr("QtWarningMsg", "QtCore", "QtWarningMsg"),
      GetAttr("QtCriticalMsg", "QtCore", "QtCriticalMsg"),
      GetAttr("QtFatalMsg", "QtCore", "QtFatalMsg")>>

\* lines 88-106 with QtTest imported before QtGui
common_steps_test_first ==
    <<Import("QtCore", "QtCore"), Import("QtTest", "QtTest"), Import("QtGui", "QtGui"),
      GetAttr("Qt", "QtCore", "Qt"), GetAttr("QEvent", "QtCore", "QEvent"),
      GetAttr("qDebug", "QtCore", "qDebug"), GetAttr("qWarning", "QtCore", "qWarning"),
      GetAttr("qCritical", "QtCore", "qCritical"), GetAttr("qFatal", "QtCore", "qFatal"),
      GetAttr("QtDebugMsg", "QtCore", "QtDebugMsg"),
      GetAttr("QtWarningMsg", "QtCore", "QtWarningMsg"),
      GetAttr("QtCriticalMsg", "QtCore", "QtCriticalMsg"),
      GetAttr("QtFatalMsg", "QtCore", "QtFatalMsg"),
      SetNone("qInstallMsgHandler"), SetNone("qInstallMessageHandler")>>

\* lines 88-106
common_steps ==
    <<Import("QtCore", "QtCore"), Import("QtGui", "QtGui"), Import("QtTest", "QtTest"),
      GetAttr("Qt", "QtCore", "Qt"), GetAttr("QEvent", "QtCore", "QEvent"),
      GetAttr("qDebug", "QtCore", "qDebug"), GetAttr("qWarning", "QtCore", "qWarning"),
      GetAttr("qCritical", "QtCore", "qCritical"), GetAttr("qFatal", "QtCore", "qFatal"),
      GetAttr("QtDebugMsg", "QtCore", "QtDebugMsg"),
      GetAttr("QtWarningMsg", "QtCore", "QtWarningMsg"),
      GetAttr("QtCriticalMsg", "QtCore", "QtCriticalMsg"),
      GetAttr("QtFatalMsg", "QtCore", "QtFatalMsg"),
      SetNone("qInstallMsgHandler"), SetNone("qInstallMessageHandler")>>

\* lines 109-111 and 117-119
signal_steps(qt_api) ==
    IF qt_api = "pyside"
    THEN <<GetAttr("Signal", "QtCore", "Signal"), GetAttr("Slot", "QtCore", "Slot"),
           GetAttr("Property", "QtCore", "Property")>>
    ELSE <<GetAttr("Signal", "QtCore", "pyqtSignal"), GetAttr("Slot", "QtCore", "pyqtSlot"),
           GetAttr("Property", "QtCore", "pyqtProperty")>>

\* lines 112-114 and 121-129
widget_steps(qt_api) ==
    IF qt_api = "pyqt5"
    THEN <<Import("", "QtWidgets"),
           GetAttr("QApplication", "QtWidgets", "QApplication"),
           GetAttr("QWidget", "QtWidgets", "QWidget"),
           GetAttr("qInstallMessageHandler", "QtCore", "qInstallMessageHandler")>>
    ELSE <<GetAttr("QApplication", "QtGui", "QApplication"),
           GetAttr("QWidget", "QtGui", "QWidget"),
           GetAttr("qInstallMsgHandler", "QtCore", "qInstallMsgHandler")>>

\* lines 76-129 with the sip.setapi calls made after the imports
load_steps_sip_late(qt_api) ==
    LET c == SubSeq(common_steps, 1, 3) IN
    c \o sip_steps(qt_api) \o SubSeq(common_steps, 4, Len(common_steps))
      \o signal_steps(qt_api) \o widget_steps(qt_api)

\* lines 76-129, for a qt_api that is a key of _root_modules
load_steps(qt_api) ==
    sip_steps(qt_api) \o common_steps \o signal_steps(qt_api) \o widget_steps(qt_api)

\* _import_module(module_name), lines 64-66
import_ok(root, mod) == root \in installed /\ mod # fault

\* one statement of lines 76-129 run on st = [attrs, trace, exc]
exec(st, step, root) ==
    CASE step.op = "import_sip" ->
            IF fault = "sip"
            THEN [st EXCEPT !.exc = ImportError]
            ELSE [st EXCEPT !.trace = Append(@, <<"import", "sip">>)]
      [] step.op = "setapi" ->
            IF fault = step.attr
            THEN [st EXCEPT !.exc = ValueError]
            ELSE [st EXCEPT !.trace = Append(@, <<"setapi", step.attr>>)]
      [] step.op = "import" ->
            IF ~import_ok(root, step.mod)
            THEN [st EXCEPT !.exc = ImportError]
            ELSE [st EXCEPT !.trace = Append(@, <<"import", step.mod>>),
                            !.attrs = IF step.target = "" THEN @
                                      ELSE [@ EXCEPT ![step.target] = <<root, step.mod>>]]
      [] step.op = "getattr" ->
            [st EXCEPT !.attrs[step.target] = <<root, step.mod, step.attr>>]
      [] step.op = "none" ->
            [st EXCEPT !.attrs[step.target] = NoneVal]

\* the statements run in order; the first exception ends the call
RECURSIVE run(_, _, _)
run(st, steps, root) ==
    IF steps = <<>> \/ st.exc # NoExc THEN st
    ELSE run(exec(st, Head(steps), root), Tail(steps), root)

\* lines 62-129, after resolution gave qt_api
load(qt_api, probes) ==
    IF qt_api \notin DOMAIN root_modules
    THEN [attrs |-> attrs, trace |-> probes, exc |-> KeyError]
    ELSE run([attrs |-> attrs, trace |-> probes, exc |-> NoExc],
             load_steps(qt_api), root_modules[qt_api])

\* qt_api.set_qt_api(qt_api), lines 29-129
set_qt_api(qt_api) ==
    LET r == resolve(qt_api) IN
    /\ IF r.exc # NoExc
       THEN /\ UNCHANGED <<pytest_qt_api, attrs>>
            /\ trace' = r.trace
            /\ last' = [op |-> "set_qt_api", arg |-> qt_api, exc |-> r.exc]
       ELSE LET res == load(r.api, r.trace) IN
            /\ pytest_qt_api' = r.api
            /\ attrs' = res.attrs
            /\ trace' = res.trace
            /\ last' = [op |-> "set_qt_api", arg |-> qt_api, exc |-> res.exc]
    /\ UNCHANGED <<env, versions, versions_of>>

----------------------------------------------------------------------------
(* get_versions, lines 131-139 *)

NoVersions ==
    [qt_api |-> None, qt_api_version |-> Unset, runtime |-> Unset, compiled |-> Unset]

\* the attributes get_versions reads from a QtCore module
has_attr(module, attr) ==
    CASE attr = "__version__" -> module[1] = "PySide"
      [] attr \in {"PYQT_VERSION_STR", "QT_VERSION_STR"} -> module[1] \in {"PyQt4", "PyQt5"}
      [] OTHER -> TRUE

\* line 137 with one name for both PyQt families
qt_api_name_shared == "PyQt4"

\* line 137
qt_api_name == IF pytest_qt_api = "pyqt5" THEN "PyQt5" ELSE "PyQt4"

\* the result of get_versions: [exc, value]
versions_result ==
    IF pytest_qt_api = UnsetApi THEN [exc |-> AttributeError, value |-> NoVersions]
    ELSE IF pytest_qt_api = "pyside" THEN
        IF ~try_import("PySide") THEN [exc |-> ImportError, value |-> NoVersions]
        ELSE IF attrs["QtCore"] = Unset \/ ~has_attr(attrs["QtCore"], "__version__")
        THEN [exc |-> AttributeError, value |-> NoVersions]
        ELSE [exc |-> NoExc,
              value |-> [qt_api |-> "PySide",
                         qt_api_version |-> <<"PySide", "__version__">>,
                         runtime |-> Append(attrs["QtCore"], "qVersion()"),
                         compiled |-> Append(attrs["QtCore"], "__version__")]]
    ELSE
        IF attrs["QtCore"] = Unset \/ ~has_attr(attrs["QtCore"], "PYQT_VERSION_STR")
        THEN [exc |-> AttributeError, value |-> NoVersions]
        ELSE [exc |-> NoExc,
              value |-> [qt_api |-> qt_api_name,
                         qt_api_version |-> Append(attrs["QtCore"], "PYQT_VERSION_STR"),
                         runtime |-> Append(attrs["QtCore"], "qVersion()"),
                         compiled |-> Append(attrs["QtCore"], "QT_VERSION_STR")]]

\* qt_api.get_versions()
get_versions ==
    /\ last' = [op |-> "get_versions", arg |-> None, exc |-> versions_result.exc]
    /\ versions' = IF versions_result.exc = NoExc THEN versions_result.value ELSE versions
    /\ versions_of' = IF versions_result.exc = NoExc THEN pytest_qt_api ELSE versions_of
    /\ UNCHANGED <<env, pytest_qt_api, attrs, trace>>

----------------------------------------------------------------------------
(* The facade object *)

\* qt_api = _QtApi(), line 141: no attribute is assigned yet; the environment
\* of the process is arbitrary
Init ==
    /\ PYTEST_QT_FORCE_PYQT \in ForceValues
    /\ PYTEST_QT_API \in ConfiguredValues
    /\ installed \in SUBSET Roots
    /\ fault \in Faults
    /\ pytest_qt_api = UnsetApi
    /\ attrs = [n \in UniformNames |-> Unset]
    /\ trace = <<>>
    /\ last = [op |-> "init", arg |-> None, exc |-> NoExc]
    /\ versions = NoVersions
    /\ versions_of = UnsetApi

Next ==
    \/ \E qt_api \in Overrides : set_qt_api(qt_api)
    \/ get_versions

Spec == Init /\ [][Next]_vars

----------------------------------------------------------------------------
(* Vocabulary of the properties *)

\* the last operation was a call of set_qt_api
Called == last.op = "set_qt_api"

\* the call got past resolution: it assigned pytest_qt_api (line 62)
Resolved == Called /\ last.exc \notin {ConfigurationError, NoBackendFoundError}

Succeeded == Called /\ last.exc = NoExc

ForceSet == PYTEST_QT_FORCE_PYQT = "true"
OverrideEmpty == last.arg \in {None, ""}

\* the discriminant each recognised value of $PYTEST_QT_API stands for,
\* compared without regard to case
Discriminant ==
    [v \in {"PySide", "pyqt4", "PYQT4V2", "pyqt5"} |->
        CASE v = "PySide" -> "pyside"
          [] v = "pyqt4" -> "pyqt4"
          [] v = "PYQT4V2" -> "pyqt4v2"
          [] v = "pyqt5" -> "pyqt5"]

\* the root package each discriminant names
BackendOf ==
    [a \in {"pyside", "pyqt4", "pyqt4v2", "pyqt5"} |->
        CASE a = "pyside" -> "PySide"
          [] a \in {"pyqt4", "pyqt4v2"} -> "PyQt4"
          [] a = "pyqt5" -> "PyQt5"]

Probes == {i \in 1..Len(trace) : trace[i][1] = "probe"}
SetApis == {i \in 1..Len(trace) : trace[i][1] = "setapi"}

\* the submodules imported by the last set_qt_api, in order
Imported == SelectSeq(trace, LAMBDA e : e[1] = "import" /\ e[2] # "sip")

IsPrefix(s, t) == Len(s) <= Len(t) /\ \A i \in 1..Len(s) : s[i] = t[i]

----------------------------------------------------------------------------
(* C1 *)

\* C1 as stated: with the force flag unset and no explicit override, a value v
\* of $PYTEST_QT_API resolves to lower(v) when that is a known discriminant,
\* and ConfigurationError is raised exactly when v is non-empty and lower(v)
\* is unknown; an empty or absent value never raises ConfigurationError.
C1_Original ==
    (Called /\ ~ForceSet /\ OverrideEmpty) =>
        /\ PYTEST_QT_API \in DOMAIN Discriminant =>
              (last.exc # ConfigurationError /\ pytest_qt_api = Discriminant[PYTEST_QT_API])
        /\ last.exc = ConfigurationError <=>
              (PYTEST_QT_API \notin {None, ""} /\ PYTEST_QT_API \notin DOMAIN Discriminant)

\* C1 amended: with the force flag unset and no explicit override, a value v of
\* $PYTEST_QT_API resolves to lower(v) when that is a known discriminant, and
\* ConfigurationError is raised exactly when v is set (the empty string
\* included) and lower(v) is unknown; only an absent value never raises it.
C1_Amended ==
    (Called /\ ~ForceSet /\ OverrideEmpty) =>
        /\ PYTEST_QT_API \in DOMAIN Discriminant =>
              (last.exc # ConfigurationError /\ pytest_qt_api = Discriminant[PYTEST_QT_API])
        /\ last.exc = ConfigurationError <=>
              (PYTEST_QT_API # None /\ PYTEST_QT_API \notin DOMAIN Discriminant)

C1_Witness ==
    /\ Called /\ ~ForceSet /\ OverrideEmpty
    /\ PYTEST_QT_API = "PYQT4V2"
    /\ pytest_qt_api = "pyqt4v2"
    /\ last.exc = NoExc

----------------------------------------------------------------------------
(* C2 *)

\* the backend auto-detection probes first, whose facade binds Signal, Slot and
\* Property to QtCore.Signal, QtCore.Slot and QtCore.Property
OldestBackend == "pyside"

\* C2 as stated: when $PYTEST_QT_FORCE_PYQT is 'true', set_qt_api resolves to
\* the oldest backend (pyside) for every override and every configured value.
C2_Original == (Called /\ ForceSet) => (Resolved /\ pytest_qt_api = OldestBackend)

\* C2 amended: when $PYTEST_QT_FORCE_PYQT is 'true', set_qt_api resolves to
\* pyqt4 for every override and every configured value; a successful call
\* binds Signal, Slot and Property to PyQt4's QtCore.pyqtSignal, pyqtSlot and
\* pyqtProperty.
C2_Amended ==
    (Called /\ ForceSet) =>
        /\ Resolved
        /\ pytest_qt_api = "pyqt4"
        /\ Succeeded =>
              /\ attrs["Signal"] = <<"PyQt4", "QtCore", "pyqtSignal">>
              /\ attrs["Slot"] = <<"PyQt4", "QtCore", "pyqtSlot">>
              /\ attrs["Property"] = <<"PyQt4", "QtCore", "pyqtProperty">>

C2_Witness ==
    /\ Succeeded /\ ForceSet
    /\ last.arg = "pyqt5"
    /\ PYTEST_QT_API = "PySide"
    /\ pytest_qt_api = "pyqt4"

----------------------------------------------------------------------------
(* C3 *)

\* C3: the first applicable source among force flag, explicit override,
\* configured value, auto-detection decides. With the force flag unset and a
\* non-empty override the discriminant is the override verbatim, whatever
\* $PYTEST_QT_API holds (no ConfigurationError) and whatever is installed (no
\* probe is run); nor is a probe run when the force flag or a configured value
\* applies.
C3_Priority ==
    Called =>
        /\ (~ForceSet /\ ~OverrideEmpty) =>
              /\ Resolved
              /\ pytest_qt_api = last.arg
              /\ Probes = {}
        /\ (ForceSet \/ PYTEST_QT_API # None) => Probes = {}
        /\ ForceSet => Resolved

C3_Witness ==
    /\ Succeeded /\ ~ForceSet
    /\ last.arg = "pyside"
    /\ PYTEST_QT_API = "Bogus"
    /\ installed = Roots
    /\ pytest_qt_api = "pyside"

----------------------------------------------------------------------------
(* C4 *)

\* C4: with no force flag, no override and $PYTEST_QT_API not set, set_qt_api
\* resolves to the first of pyside, pyqt4, pyqt5 whose root package can be
\* imported, probing in that order and no further than the first success, and
\* raises NoBackendFoundError exactly when none can be imported; pyqt4v2 is
\* never chosen.
C4_AutoDetect ==
    (Called /\ ~ForceSet /\ OverrideEmpty /\ PYTEST_QT_API = None) =>
        /\ last.exc = NoBackendFoundError <=> installed = {}
        /\ "PySide" \in installed =>
              (pytest_qt_api = "pyside" /\ trace[1] = <<"probe", "PySide">> /\ Cardinality(Probes) = 1)
        /\ ("PySide" \notin installed /\ "PyQt4" \in installed) =>
              (pytest_qt_api = "pyqt4" /\ trace[2] = <<"probe", "PyQt4">> /\ Cardinality(Probes) = 2)
        /\ installed = {"PyQt5"} =>
              (pytest_qt_api = "pyqt5" /\ trace[3] = <<"probe", "PyQt5">> /\ Cardinality(Probes) = 3)
        /\ Resolved => pytest_qt_api \in {"pyside", "pyqt4", "pyqt5"}

C4_Witness ==
    /\ Succeeded /\ ~ForceSet /\ OverrideEmpty /\ PYTEST_QT_API = None
    /\ installed = {"PyQt4", "PyQt5"}
    /\ pytest_qt_api = "pyqt4"

----------------------------------------------------------------------------
(* C5 *)

\* C5: after a successful set_qt_api both installer attributes exist and
\* exactly one is not None: qInstallMessageHandler for pyqt5,
\* qInstallMsgHandler for pyside, pyqt4 and pyqt4v2.
C5_Installers ==
    Succeeded =>
        /\ pytest_qt_api \in {"pyside", "pyqt4", "pyqt4v2", "pyqt5"}
        /\ attrs["qInstallMsgHandler"] # Unset
        /\ attrs["qInstallMessageHandler"] # Unset
        /\ pytest_qt_api = "pyqt5" =>
              /\ attrs["qInstallMessageHandler"] = <<"PyQt5", "QtCore", "qInstallMessageHandler">>
              /\ attrs["qInstallMsgHandler"] = NoneVal
        /\ pytest_qt_api = "pyside" =>
              /\ attrs["qInstallMsgHandler"] = <<"PySide", "QtCore", "qInstallMsgHandler">>
              /\ attrs["qInstallMessageHandler"] = NoneVal
        /\ pytest_qt_api \in {"pyqt4", "pyqt4v2"} =>
              /\ attrs["qInstallMsgHandler"] = <<"PyQt4", "QtCore", "qInstallMsgHandler">>
              /\ attrs["qInstallMessageHandler"] = NoneVal

C5_Witness ==
    /\ Succeeded
    /\ pytest_qt_api = "pyqt5"
    /\ attrs["qInstallMsgHandler"] = NoneVal
    /\ versions_of = "pyqt4"

----------------------------------------------------------------------------
(* C6 *)

ModernApis == {"pyqt4", "pyqt4v2", "pyqt5"}

\* get_versions has just returned a record for a facade of a modern family
ModernReport ==
    /\ last.op = "get_versions" /\ last.exc = NoExc
    /\ pytest_qt_api \in ModernApis

\* the record held in versions was returned for a facade of a modern family
\* whose QtCore is that of its discriminant
BuiltModernReport ==
    /\ versions_of \in ModernApis
    /\ versions.qt_api_version[1] = BackendOf[versions_of]

\* C6 as stated: the name field of the record get_versions returns is one
\* display name shared by the modern families: a record returned for a modern
\* facade carries the same name as the record returned before it for a modern
\* facade (both facades holding the QtCore of their discriminant).
C6_Original ==
    [][(ModernReport' /\ BuiltModernReport' /\ BuiltModernReport)
          => versions'.qt_api = versions.qt_api]_vars

\* C6 amended: get_versions on a facade whose discriminant is pyqt4, pyqt4v2 or
\* pyqt5 returns a record whose name is 'PyQt5' for pyqt5 and 'PyQt4' for pyqt4
\* and pyqt4v2, the other three fields being read from the facade's QtCore:
\* PYQT_VERSION_STR, qVersion() and QT_VERSION_STR.
C6_Amended ==
    ModernReport =>
        /\ versions.qt_api = (IF pytest_qt_api = "pyqt5" THEN "PyQt5" ELSE "PyQt4")
        /\ versions.qt_api_version = attrs["QtCore"] \o <<"PYQT_VERSION_STR">>
        /\ versions.runtime = attrs["QtCore"] \o <<"qVersion()">>
        /\ versions.compiled = attrs["QtCore"] \o <<"QT_VERSION_STR">>
        /\ versions_of = pytest_qt_api

C6_Witness ==
    /\ ModernReport
    /\ pytest_qt_api = "pyqt5"
    /\ versions.qt_api = "PyQt5"
    /\ attrs["QtCore"] = <<"PyQt5", "QtCore">>

----------------------------------------------------------------------------
(* C7 *)

\* the seven names whose API level 2 is selected
SevenApis == {"QDate", "QDateTime", "QString", "QTextStream", "QTime", "QUrl", "QVariant"}

\* C7: in a call of set_qt_api that resolves to pyqt4v2, QtCore is imported
\* only after sip.setapi has been called for each of the seven names (and a
\* call that succeeds has made all seven); a call that resolves to anything
\* else, or that fails to resolve, calls sip.setapi not at all.
C7_SetApiFirst ==
    Called =>
        IF Resolved /\ pytest_qt_api = "pyqt4v2"
        THEN /\ \A i \in 1..Len(trace) :
                    trace[i] = <<"import", "QtCore">> =>
                        \A n \in SevenApis : \E j \in 1..(i - 1) : trace[j] = <<"setapi", n>>
             /\ Succeeded => \E i \in 1..Len(trace) : trace[i] = <<"import", "QtCore">>
             /\ \A i \in SetApis : trace[i][2] \in SevenApis
        ELSE SetApis = {}

C7_Witness ==
    /\ Succeeded
    /\ pytest_qt_api = "pyqt4v2"
    /\ Cardinality(SetApis) = 7

----------------------------------------------------------------------------
(* C8 *)

\* C8 as stated: the submodules are imported in the order QtCore, QtGui, (for
\* pyqt5) QtWidgets, QtTest; when an import fails no later one of that order
\* has been made.
C8_Original ==
    Resolved =>
        IsPrefix(Imported,
                 IF pytest_qt_api = "pyqt5"
                 THEN <<<<"import", "QtCore">>, <<"import", "QtGui">>,
                        <<"import", "QtWidgets">>, <<"import", "QtTest">>>>
                 ELSE <<<<"import", "QtCore">>, <<"import", "QtGui">>, <<"import", "QtTest">>>>)

\* the order of the imports in the code
ImportOrder ==
    IF pytest_qt_api = "pyqt5"
    THEN <<<<"import", "QtCore">>, <<"import", "QtGui">>,
           <<"import", "QtTest">>, <<"import", "QtWidgets">>>>
    ELSE <<<<"import", "QtCore">>, <<"import", "QtGui">>, <<"import", "QtTest">>>>

\* C8 amended: the submodules are imported in the order QtCore, QtGui, QtTest
\* and then, for pyqt5 only, QtWidgets: for pyqt5 the QtWidgets import happens
\* after QtTest; when an import fails no later one of that order has been
\* made, and a call that succeeds has made them all.
C8_Amended ==
    /\ Resolved => IsPrefix(Imported, ImportOrder)
    /\ Succeeded => Imported = ImportOrder
    /\ (Called /\ ~Resolved) => Imported = <<>>

C8_Witness ==
    /\ Succeeded
    /\ pytest_qt_api = "pyqt5"
    /\ Imported = <<<<"import", "QtCore">>, <<"import", "QtGui">>,
                    <<"import", "QtTest">>, <<"import", "QtWidgets">>>>

----------------------------------------------------------------------------
(* C9 *)

\* C9: in every reachable state pytest_qt_api is unset or one of pyside,
\* pyqt4, pyqt4v2, pyqt5: an override outside that set is rejected before it
\* is recorded.
C9_ClosedSet == pytest_qt_api \in {UnsetApi, "pyside", "pyqt4", "pyqt4v2", "pyqt5"}

----------------------------------------------------------------------------
(* C10 *)

\* C10: in every reachable state, also after a failed set_qt_api, a facade
\* that carries a discriminant has every uniform name bound to a symbol or to
\* None, and the symbols are those of the backend the discriminant names.
C10_Consistent ==
    pytest_qt_api \in DOMAIN BackendOf =>
        \A n \in UniformNames :
            /\ attrs[n] # Unset
            /\ attrs[n] # NoneVal => attrs[n][1] = BackendOf[pytest_qt_api]

====
